---- MODULE Spec2Model ----
(***************************************************************************)
(* commandrs: a Program accumulates flag definitions (with_required_flag,  *)
(* with_optional_flag, both through add_flag), parses an argument list     *)
(* (parse_from_strings) and serves typed lookups (get).                    *)
(*                                                                         *)
(* Strings are sequences of one-character strings, so that starts_with,    *)
(* strip_prefix, to_string and str::parse are computed on the characters.  *)
(* Every builder method takes the Program by value: a call that returns    *)
(* Err drops it, and the caller has to start again from Program::new().    *)
(***************************************************************************)
EXTENDS Integers, Sequences, FiniteSets, TLC

VARIABLES flags, flag_defaults, flag_values, alive, call, result

vars == <<flags, flag_defaults, flag_values, alive, call, result>>

(* ------------------------------ bounds -------------------------------- *)

MaxArgs == 3

(* ----------------------------- constants ------------------------------ *)

ARG_PREFIX == <<"-", "-">>
HELP_FLAG == <<"h", "e", "l", "p">>
BOOL_TYPE_ID == "bool"

\* u8::MAX
U8_MAX == 2 ^ 8 - 1

(* ------------------------------ inputs -------------------------------- *)

NameA == <<"a">>
NameB == <<"b">>

Names == {NameA, NameB}

\* TypeId::of::<T>() for the T a flag is registered with.
TypeIds == {"bool", "u8"}

\* The T of get::<T>.
GetTypes == {"bool", "u8", "alloc::string::String"}

BoolVal(b) == [t |-> "bool", b |-> b, n |-> 0, s |-> <<>>]
U8Val(n) == [t |-> "u8", b |-> FALSE, n |-> n, s |-> <<>>]
StringVal(s) == [t |-> "alloc::string::String", b |-> FALSE, n |-> 0, s |-> s]
NoVal == [t |-> "none", b |-> FALSE, n |-> 0, s |-> <<>>]

\* The default values with_optional_flag is called with.
Defaults == {BoolVal(FALSE), U8Val(12)}

TokA == ARG_PREFIX \o NameA
TokB == ARG_PREFIX \o NameB
TokHelp == ARG_PREFIX \o HELP_FLAG
Tok07 == <<"0", "7">>

Tokens == {TokA, TokB, TokHelp, Tok07}

RECURSIVE SeqsUpTo(_, _)
SeqsUpTo(S, n) ==
    IF n = 0 THEN {<<>>}
    ELSE LET shorter == SeqsUpTo(S, n - 1)
         IN  shorter \cup {Append(s, x) : s \in {q \in shorter : Len(q) = n - 1}, x \in S}

ArgLists == SeqsUpTo(Tokens, MaxArgs)

(* ------------------------- Option and Result -------------------------- *)

None == [some |-> FALSE, v |-> <<>>]
Some(v) == [some |-> TRUE, v |-> v]

NoCall == [op |-> "new", name |-> <<>>, T |-> "none", default |-> NoVal, args |-> <<>>]
OkResult == [kind |-> "Ok", name |-> <<>>, type_name |-> "", val |-> NoVal]
ErrResult(kind, name, type_name) ==
    [kind |-> kind, name |-> name, type_name |-> type_name, val |-> NoVal]

(* ------------------------------ Display ------------------------------- *)

Digit(d) == CASE d = 0 -> "0" [] d = 1 -> "1" [] d = 2 -> "2" [] d = 3 -> "3"
              [] d = 4 -> "4" [] d = 5 -> "5" [] d = 6 -> "6" [] d = 7 -> "7"
              [] d = 8 -> "8" [] d = 9 -> "9"

RECURSIVE u8_to_string(_)
u8_to_string(n) ==
    IF n < 10 THEN <<Digit(n)>>
    ELSE Append(u8_to_string(n \div 10), Digit(n % 10))

\* default.to_string(): Display of bool, u8 and String.
to_string(d) ==
    CASE d.t = "bool" -> IF d.b THEN <<"t", "r", "u", "e">> ELSE <<"f", "a", "l", "s", "e">>
      [] d.t = "u8" -> u8_to_string(d.n)
      [] OTHER -> d.s

(* ------------------------------ Program ------------------------------- *)

FlagNames(fs) == {fs[i].name : i \in 1..Len(fs)}

\* Iterator::find over a Vec: the index of the first element with the name, 0 if none.
find(vec, name) ==
    IF \E i \in 1..Len(vec) : vec[i].name = name
    THEN CHOOSE i \in 1..Len(vec) :
             /\ vec[i].name = name
             /\ \A j \in 1..(i - 1) : vec[j].name # name
    ELSE 0

already_has_flag_with_name(fs, name) == \E i \in 1..Len(fs) : fs[i].name = name

\* add_flag with the push moved above the duplicate check.
add_flag_push_before_check(fs, name, type_id, is_required) ==
    [ok |-> ~already_has_flag_with_name(fs, name),
     flags |-> Append(fs, [name |-> name, type_id |-> type_id,
                           is_required |-> is_required])]

\* add_flag: Err before any push when the name is taken, else the flag appended.
add_flag(fs, name, type_id, is_required) ==
    IF already_has_flag_with_name(fs, name)
    THEN [ok |-> FALSE, flags |-> fs]
    ELSE [ok |-> TRUE,
          flags |-> Append(fs, [name |-> name, type_id |-> type_id,
                                is_required |-> is_required])]

Init ==
    /\ flags = <<>>
    /\ flag_defaults = <<>>
    /\ flag_values = <<>>
    /\ alive = TRUE
    /\ call = NoCall
    /\ result = OkResult

\* Program::new(): the caller starts over with an empty Program.
New ==
    /\ flags' = <<>>
    /\ flag_defaults' = <<>>
    /\ flag_values' = <<>>
    /\ alive' = TRUE
    /\ call' = NoCall
    /\ result' = OkResult

with_required_flag ==
    \E name \in Names, T \in TypeIds :
        /\ alive
        /\ LET r == add_flag(flags, name, T, TRUE)
           IN  /\ flags' = r.flags
               /\ alive' = r.ok
               /\ result' = IF r.ok THEN OkResult
                            ELSE ErrResult("FlagAlreadyExistsWithName", name, "")
        /\ call' = [op |-> "with_required_flag", name |-> name, T |-> T,
                    default |-> NoVal, args |-> <<>>]
        /\ UNCHANGED <<flag_defaults, flag_values>>

\* with_optional_flag that pushes the default before add_flag has accepted the name.
with_optional_flag_default_first ==
    \E name \in Names, default \in Defaults :
        /\ alive
        /\ LET r == add_flag(flags, name, default.t, FALSE)
           IN  /\ flags' = r.flags
               /\ alive' = r.ok
               /\ flag_defaults' =
                      Append(flag_defaults,
                             [name |-> name, str_value |-> to_string(default)])
               /\ result' = IF r.ok THEN OkResult
                            ELSE ErrResult("FlagAlreadyExistsWithName", name, "")
        /\ call' = [op |-> "with_optional_flag", name |-> name, T |-> default.t,
                    default |-> default, args |-> <<>>]
        /\ UNCHANGED flag_values

with_optional_flag ==
    \E name \in Names, default \in Defaults :
        /\ alive
        /\ LET r == add_flag(flags, name, default.t, FALSE)
           IN  /\ flags' = r.flags
               /\ alive' = r.ok
               /\ flag_defaults' =
                      IF r.ok
                      THEN Append(flag_defaults,
                                  [name |-> name, str_value |-> to_string(default)])
                      ELSE flag_defaults
               /\ result' = IF r.ok THEN OkResult
                            ELSE ErrResult("FlagAlreadyExistsWithName", name, "")
        /\ call' = [op |-> "with_optional_flag", name |-> name, T |-> default.t,
                    default |-> default, args |-> <<>>]
        /\ UNCHANGED flag_values

(* ------------------------------- parser ------------------------------- *)

starts_with(s, prefix) ==
    /\ Len(s) >= Len(prefix)
    /\ SubSeq(s, 1, Len(prefix)) = prefix

is_in_arg_format(s) == starts_with(s, ARG_PREFIX)

\* a.strip_prefix(ARG_PREFIX).unwrap_or(a)
arg_name(a) ==
    IF starts_with(a, ARG_PREFIX) THEN SubSeq(a, Len(ARG_PREFIX) + 1, Len(a)) ELSE a

\* requires_value without the bool exemption.
requires_value_always(fs, name) == find(fs, name) # 0

\* Whether the flag the marker names is registered with a type other than bool;
\* false for a marker that names no registered flag.
requires_value(fs, name) ==
    LET i == find(fs, name)
    IN  IF i = 0 THEN FALSE ELSE fs[i].type_id # BOOL_TYPE_ID

\* arg_value that never hands a next token to a flag that does not require one.
arg_value_only_when_required(fs, args, i) ==
    IF i + 1 > Len(args) THEN None
    ELSE IF requires_value(fs, arg_name(args[i])) THEN Some(args[i + 1])
         ELSE None

\* arg_value with the filter reduced to !is_in_arg_format(s): no flag is handed
\* a token that looks like a marker.
arg_value_skips_markers(fs, args, i) ==
    IF i + 1 > Len(args) THEN None
    ELSE IF ~is_in_arg_format(args[i + 1]) THEN Some(args[i + 1])
         ELSE None

\* args.get(i + 1).filter(|s| requires_value || !is_in_arg_format(s))
arg_value(fs, args, i) ==
    IF i + 1 > Len(args) THEN None
    ELSE IF requires_value(fs, arg_name(args[i])) \/ ~is_in_arg_format(args[i + 1])
         THEN Some(args[i + 1])
         ELSE None

Markers(args) == {i \in 1..Len(args) : is_in_arg_format(args[i])}

\* A map that keeps the first pair of a key (entry().or_insert instead of insert).
kept_position_first(args, name) ==
    CHOOSE i \in Markers(args) :
        /\ arg_name(args[i]) = name
        /\ \A j \in Markers(args) : arg_name(args[j]) = name => i <= j

\* The position whose pair the HashMap keeps for a key: collect() inserts the
\* pairs in order, and a later insert replaces the earlier value of the same key.
kept_position(args, name) ==
    CHOOSE i \in Markers(args) :
        /\ arg_name(args[i]) = name
        /\ \A j \in Markers(args) : arg_name(args[j]) = name => j <= i

\* The HashMap from the name of every marker of args to its optional value.
given_flag_args(fs, args) ==
    [name \in {arg_name(args[i]) : i \in Markers(args)} |->
        arg_value(fs, args, kept_position(args, name))]

contains_key(map, key) == key \in DOMAIN map

\* HashMap::get: None when the key is absent, Some(the stored Option) otherwise.
map_get(map, key) == IF key \in DOMAIN map THEN Some(map[key]) ELSE None

\* The default lookup with the name comparison dropped: the first entry wins.
unwrap_default_first_entry(defaults, name) ==
    IF Len(defaults) = 0 THEN [panic |-> TRUE, str_value |-> <<>>]
    ELSE [panic |-> FALSE, str_value |-> defaults[1].str_value]

\* flag_defaults.iter().find(|fv| fv.name == name).unwrap(): panics without an entry.
unwrap_default_flag_value(defaults, name) ==
    LET i == find(defaults, name)
    IN  IF i = 0 THEN [panic |-> TRUE, str_value |-> <<>>]
        ELSE [panic |-> FALSE, str_value |-> defaults[i].str_value]

TrueString == to_string(BoolVal(TRUE))

ResOk(name, str_value) == [kind |-> "Ok", name |-> name, str_value |-> str_value]
ResErr(name) == [kind |-> "RequiredArgWasNotGiven", name |-> name, str_value |-> <<>>]
ResPanic(name) == [kind |-> "panic", name |-> name, str_value |-> <<>>]

\* resolve_flag with the bool arm tried first: a bool flag that is present is
\* "true" whatever value came with it.
resolve_flag_bool_first(f, given, defaults) ==
    LET g == map_get(given, f.name)
    IN  IF g.some /\ f.type_id = BOOL_TYPE_ID THEN ResOk(f.name, TrueString)
        ELSE IF g.some /\ g.v.some THEN ResOk(f.name, g.v.v)
        ELSE IF g.some THEN ResErr(f.name)
        ELSE IF f.is_required THEN ResErr(f.name)
        ELSE LET d == unwrap_default_flag_value(defaults, f.name)
             IN  IF d.panic THEN ResPanic(f.name) ELSE ResOk(f.name, d.str_value)

\* The match on given_flag_args.get(name) for one registered flag.
resolve_flag(f, given, defaults) ==
    LET g == map_get(given, f.name)
    IN  IF g.some /\ g.v.some THEN ResOk(f.name, g.v.v)
        ELSE IF g.some /\ f.type_id = BOOL_TYPE_ID THEN ResOk(f.name, TrueString)
        ELSE IF g.some THEN ResErr(f.name)
        ELSE IF f.is_required THEN ResErr(f.name)
        ELSE LET d == unwrap_default_flag_value(defaults, f.name)
             IN  IF d.panic THEN ResPanic(f.name) ELSE ResOk(f.name, d.str_value)

flag_value_mutations(fs, given, defaults) ==
    [i \in 1..Len(fs) |-> resolve_flag(fs[i], given, defaults)]

\* find_err searching from the back (rfind instead of find).
find_err_last(muts) ==
    IF \E i \in 1..Len(muts) : muts[i].kind = "RequiredArgWasNotGiven"
    THEN CHOOSE i \in 1..Len(muts) :
             /\ muts[i].kind = "RequiredArgWasNotGiven"
             /\ \A j \in (i + 1)..Len(muts) : muts[j].kind # "RequiredArgWasNotGiven"
    ELSE 0

\* flag_value_mutations.iter().find(|r| r.is_err()): index of the first Err, 0 if none.
find_err(muts) ==
    IF \E i \in 1..Len(muts) : muts[i].kind = "RequiredArgWasNotGiven"
    THEN CHOOSE i \in 1..Len(muts) :
             /\ muts[i].kind = "RequiredArgWasNotGiven"
             /\ \A j \in 1..(i - 1) : muts[j].kind # "RequiredArgWasNotGiven"
    ELSE 0

\* into_iter().filter_map(|r| r.ok()).collect()
collect_ok(muts) ==
    LET F[i \in 0..Len(muts)] ==
            IF i = 0 THEN <<>>
            ELSE IF muts[i].kind = "Ok"
                 THEN Append(F[i - 1], [name |-> muts[i].name,
                                        str_value |-> muts[i].str_value])
                 ELSE F[i - 1]
    IN  F[Len(muts)]

\* generate_help_text looks the default of every optional flag up with unwrap:
\* whether one of these lookups panics.
generate_help_text_panics(fs, defaults) ==
    \E i \in 1..Len(fs) :
        ~fs[i].is_required /\ unwrap_default_flag_value(defaults, fs[i].name).panic

\* parse_from_strings storing the resolved values before it looks for errors.
parse_outcome_commits_first(fs, defaults, values, args) ==
    LET given == given_flag_args(fs, args)
        muts == flag_value_mutations(fs, given, defaults)
        e == find_err(muts)
    IN  IF \E i \in 1..Len(muts) : muts[i].kind = "panic"
        THEN [result |-> ErrResult("panic", <<>>, ""), flag_values |-> values]
        ELSE IF e # 0
        THEN [result |-> ErrResult("RequiredArgWasNotGiven", muts[e].name, ""),
              flag_values |-> collect_ok(muts)]
        ELSE IF contains_key(given, HELP_FLAG)
        THEN IF generate_help_text_panics(fs, defaults)
             THEN [result |-> ErrResult("panic", <<>>, ""), flag_values |-> values]
             ELSE [result |-> ErrResult("HelpFlagGiven", <<>>, ""),
                   flag_values |-> collect_ok(muts)]
        ELSE [result |-> OkResult, flag_values |-> collect_ok(muts)]

\* parse_from_strings extending flag_values instead of replacing it.
parse_outcome_appends(fs, defaults, values, args) ==
    LET given == given_flag_args(fs, args)
        muts == flag_value_mutations(fs, given, defaults)
        e == find_err(muts)
    IN  IF \E i \in 1..Len(muts) : muts[i].kind = "panic"
        THEN [result |-> ErrResult("panic", <<>>, ""), flag_values |-> values]
        ELSE IF e # 0
        THEN [result |-> ErrResult("RequiredArgWasNotGiven", muts[e].name, ""),
              flag_values |-> values]
        ELSE IF contains_key(given, HELP_FLAG)
        THEN IF generate_help_text_panics(fs, defaults)
             THEN [result |-> ErrResult("panic", <<>>, ""), flag_values |-> values]
             ELSE [result |-> ErrResult("HelpFlagGiven", <<>>, ""), flag_values |-> values]
        ELSE [result |-> OkResult, flag_values |-> values \o collect_ok(muts)]

\* What parse_from_strings returns and the flag_values self holds at that point.
parse_outcome(fs, defaults, values, args) ==
    LET given == given_flag_args(fs, args)
        muts == flag_value_mutations(fs, given, defaults)
        e == find_err(muts)
    IN  IF \E i \in 1..Len(muts) : muts[i].kind = "panic"
        THEN [result |-> ErrResult("panic", <<>>, ""), flag_values |-> values]
        ELSE IF e # 0
        THEN [result |-> ErrResult("RequiredArgWasNotGiven", muts[e].name, ""),
              flag_values |-> values]
        ELSE IF contains_key(given, HELP_FLAG)
        THEN IF generate_help_text_panics(fs, defaults)
             THEN [result |-> ErrResult("panic", <<>>, ""), flag_values |-> values]
             ELSE [result |-> ErrResult("HelpFlagGiven", <<>>, ""), flag_values |-> values]
        ELSE [result |-> OkResult, flag_values |-> collect_ok(muts)]

parse_from_strings ==
    \E args \in ArgLists :
        /\ alive
        /\ LET o == parse_outcome(flags, flag_defaults, flag_values, args)
           IN  /\ flag_values' = o.flag_values
               /\ result' = o.result
               /\ alive' = (o.result.kind = "Ok")
        /\ call' = [op |-> "parse_from_strings", name |-> <<>>, T |-> "none",
                    default |-> NoVal, args |-> args]
        /\ UNCHANGED <<flags, flag_defaults>>

(* ------------------------------ FromStr ------------------------------- *)

IsDigit(c) == c \in {"0", "1", "2", "3", "4", "5", "6", "7", "8", "9"}

DigitValue(c) == CHOOSE d \in 0..9 : Digit(d) = c

ParseOk(val) == [ok |-> TRUE, val |-> val]
ParseErr == [ok |-> FALSE, val |-> NoVal]

\* <bool as FromStr>::from_str: exactly "true" and "false" parse.
parse_bool(s) ==
    IF s = to_string(BoolVal(TRUE)) THEN ParseOk(BoolVal(TRUE))
    ELSE IF s = to_string(BoolVal(FALSE)) THEN ParseOk(BoolVal(FALSE))
    ELSE ParseErr

\* <u8 as FromStr>::from_str: an optional '+', then decimal digits (leading zeros
\* allowed), the value at most u8::MAX; anything else is an error.
parse_u8(s) ==
    LET digits == IF Len(s) > 0 /\ s[1] = "+" THEN Tail(s) ELSE s
        V[i \in 0..Len(digits)] ==
            IF i = 0 THEN 0
            ELSE IF V[i - 1] > U8_MAX THEN V[i - 1]
            ELSE 10 * V[i - 1] + DigitValue(digits[i])
    IN  IF Len(digits) = 0 THEN ParseErr
        ELSE IF \E i \in 1..Len(digits) : ~IsDigit(digits[i]) THEN ParseErr
        ELSE IF V[Len(digits)] > U8_MAX THEN ParseErr
        ELSE ParseOk(U8Val(V[Len(digits)]))

\* <String as FromStr>::from_str never fails.
parse_String(s) == ParseOk(StringVal(s))

\* str_value.parse::<T>()
parse(T, s) ==
    CASE T = "bool" -> parse_bool(s)
      [] T = "u8" -> parse_u8(s)
      [] OTHER -> parse_String(s)

\* Display of a value get returned: the canonical text of the value.
display(val) == to_string(val)

\* get that refuses a T other than the type the flag was registered with.
get_checks_type_id(fs, values, name, T) ==
    LET i == find(values, name)
        k == find(fs, name)
    IN  IF i = 0 THEN ErrResult("NoSuchFlagExistsWithName", name, "")
        ELSE LET r == parse(T, values[i].str_value)
             IN  IF r.ok /\ k # 0 /\ fs[k].type_id = T
                 THEN [kind |-> "Ok", name |-> <<>>, type_name |-> "", val |-> r.val]
                 ELSE ErrResult("FailedToParseFlagValue", name, T)

\* get::<T>(name): the first flag value with the name, parsed as T; the flag's
\* type_id is not looked at.
get(fs, values, name, T) ==
    LET i == find(values, name)
    IN  IF i = 0 THEN ErrResult("NoSuchFlagExistsWithName", name, "")
        ELSE LET r == parse(T, values[i].str_value)
             IN  IF r.ok
                 THEN [kind |-> "Ok", name |-> <<>>, type_name |-> "", val |-> r.val]
                 ELSE ErrResult("FailedToParseFlagValue", name, T)

\* get takes self by value: the Program is gone after the call.
Get ==
    \E name \in Names \cup {HELP_FLAG}, T \in GetTypes :
        /\ alive
        /\ result' = get(flags, flag_values, name, T)
        /\ alive' = FALSE
        /\ call' = [op |-> "get", name |-> name, T |-> T, default |-> NoVal,
                    args |-> <<>>]
        /\ UNCHANGED <<flags, flag_defaults, flag_values>>

Next == New \/ with_required_flag \/ with_optional_flag \/ parse_from_strings \/ Get

Spec == Init /\ [][Next]_vars

(* ------------------------- terms of the claims ------------------------ *)

Marker(name) == ARG_PREFIX \o name

IsMarkerToken(t) == Len(t) >= 2 /\ t[1] = "-" /\ t[2] = "-"

Occurrences(args, name) == {i \in 1..Len(args) : args[i] = Marker(name)}

HasMarker(args, name) == Occurrences(args, name) # {}

LastOccurrence(args, name) ==
    CHOOSE i \in Occurrences(args, name) : \A j \in Occurrences(args, name) : j <= i

HasValue(values, name) == \E i \in 1..Len(values) : values[i].name = name

ValueOf(values, name) ==
    values[CHOOSE i \in 1..Len(values) : values[i].name = name].str_value

Registration == {"with_required_flag", "with_optional_flag"}

Parsed == call.op = "parse_from_strings"

ParsedOk == Parsed /\ result.kind = "Ok"

Distinct(fs) == \A i, j \in 1..Len(fs) : fs[i].name = fs[j].name => i = j

\* A flag that cannot resolve against args: required and without a marker, or
\* not a bool and with its last marker as the final token.
Fails(f, args) ==
    \/ f.is_required /\ ~HasMarker(args, f.name)
    \/ /\ HasMarker(args, f.name)
       /\ f.type_id # "bool"
       /\ LastOccurrence(args, f.name) = Len(args)

GetOk(val) == [kind |-> "Ok", name |-> <<>>, type_name |-> "", val |-> val]

(* ------------------------------- claims ------------------------------- *)

\* C1: a registration whose name is already in the flag list returns
\* FlagAlreadyExistsWithName with that name and changes neither the flag list nor
\* the default list; the names of the flag list are pairwise distinct after
\* every step.
C1_DuplicateNameRejected ==
    [][/\ (call'.op \in Registration /\ call'.name \in FlagNames(flags))
          => /\ result'.kind = "FlagAlreadyExistsWithName"
             /\ result'.name = call'.name
             /\ flags' = flags
             /\ flag_defaults' = flag_defaults
       /\ Distinct(flags')]_vars

\* C1 witness: with_optional_flag was refused on a Program of two required
\* flags, and there is no default entry.
C1_Witness ==
    /\ call.op = "with_optional_flag"
    /\ result.kind = "FlagAlreadyExistsWithName"
    /\ Len(flags) = 2
    /\ flag_defaults = <<>>

\* C2 as stated: whenever a required flag R has no marker in the arguments, the
\* parse fails with RequiredArgWasNotGiven naming R.
C2_Original ==
    Parsed =>
        \A i \in 1..Len(flags) :
            (flags[i].is_required /\ ~HasMarker(call.args, flags[i].name))
            => /\ result.kind = "RequiredArgWasNotGiven"
               /\ result.name = flags[i].name

\* C2 amended: whenever a required flag R has no marker in the arguments, the
\* parse fails with RequiredArgWasNotGiven naming the first flag in registration
\* order that cannot resolve, which is R or a flag registered before R.
C2_Amended ==
    Parsed =>
        \A i \in 1..Len(flags) :
            (flags[i].is_required /\ ~HasMarker(call.args, flags[i].name))
            => /\ result.kind = "RequiredArgWasNotGiven"
               /\ \E j \in 1..i :
                      /\ Fails(flags[j], call.args)
                      /\ \A k \in 1..(j - 1) : ~Fails(flags[k], call.args)
                      /\ result.name = flags[j].name

\* C2 witness: two required flags, neither given; the error names the first.
C2_Witness ==
    /\ Parsed
    /\ Len(flags) = 2
    /\ flags[1].is_required /\ flags[2].is_required
    /\ ~HasMarker(call.args, flags[1].name) /\ ~HasMarker(call.args, flags[2].name)
    /\ result.kind = "RequiredArgWasNotGiven"
    /\ result.name = flags[1].name

\* C3: a parse_from_strings that returns RequiredArgWasNotGiven or HelpFlagGiven
\* leaves flag_values as it was before the call.
C3_FailedParseKeepsValues ==
    [][(/\ call'.op = "parse_from_strings"
        /\ result'.kind \in {"RequiredArgWasNotGiven", "HelpFlagGiven"})
       => flag_values' = flag_values]_vars

\* C3 witness: a parse failed on a Program that still holds a value, "07", that
\* an earlier parse stored and the failed one was not given.
C3_Witness ==
    /\ Parsed
    /\ result.kind \in {"RequiredArgWasNotGiven", "HelpFlagGiven"}
    /\ \E i \in 1..Len(flag_values) : flag_values[i].str_value = Tok07
    /\ \A k \in 1..Len(call.args) : call.args[k] # Tok07

\* C4: after a successful parse flag_values has one entry per registered flag,
\* in registration order, and nothing else, on a first parse and on a later one.
C4_OneValuePerFlag ==
    ParsedOk =>
        /\ Len(flag_values) = Len(flags)
        /\ \A i \in 1..Len(flags) : flag_values[i].name = flags[i].name

\* C4 witness: a successful parse of a Program with two flags.
C4_Witness ==
    /\ ParsedOk
    /\ Len(flags) = 2
    /\ Len(flag_values) = 2
    /\ flag_values[1].name # flag_values[2].name

\* C5 as stated: whenever the arguments contain --help, parse_from_strings
\* returns HelpFlagGiven.
C5_HelpAlwaysWins ==
    (Parsed /\ \E k \in 1..Len(call.args) : call.args[k] = Marker(HELP_FLAG))
    => result.kind = "HelpFlagGiven"

\* C6: after a successful parse of arguments without a marker of an optional
\* flag F, get::<String>(F) is the string form of the default F was registered
\* with, the string its flag_defaults entry holds, and get::<T>(F) for F's own
\* type is that default.
C6_DefaultFallback ==
    ParsedOk =>
        \A i \in 1..Len(flags) :
            (~flags[i].is_required /\ ~HasMarker(call.args, flags[i].name))
            => \E d \in Defaults :
                   /\ d.t = flags[i].type_id
                   /\ \E k \in 1..Len(flag_defaults) :
                          flag_defaults[k] =
                              [name |-> flags[i].name, str_value |-> to_string(d)]
                   /\ get(flags, flag_values, flags[i].name, "alloc::string::String")
                          = GetOk(StringVal(to_string(d)))
                   /\ get(flags, flag_values, flags[i].name, d.t) = GetOk(d)

\* C6 witness: a successful parse of a non-empty list that resolved two optional
\* flags of different types to their defaults.
C6_Witness ==
    /\ ParsedOk
    /\ Len(call.args) > 0
    /\ Len(flags) = 2
    /\ flags[1].type_id # flags[2].type_id
    /\ \A i \in 1..2 : ~flags[i].is_required /\ ~HasMarker(call.args, flags[i].name)
    /\ ValueOf(flag_values, flags[2].name) = to_string(U8Val(12))

\* The arguments name flag F once, at position p, and a token that is no marker
\* follows it.
GivenOnce(args, name, p) ==
    /\ Occurrences(args, name) = {p}
    /\ p + 1 <= Len(args)
    /\ ~IsMarkerToken(args[p + 1])

\* C7 as stated: when --F occurs once and a plain token v follows it, after a
\* successful parse get::<String>(F) is v and get::<T>(F), where it succeeds,
\* is the value whose canonical text is v.
C7_Original ==
    ParsedOk =>
        \A i \in 1..Len(flags), p \in 1..Len(call.args) :
            GivenOnce(call.args, flags[i].name, p)
            => LET F == flags[i].name
                   v == call.args[p + 1]
               IN  /\ get(flags, flag_values, F, "alloc::string::String")
                          = GetOk(StringVal(v))
                   /\ \A T \in {"bool", "u8"} :
                          LET r == get(flags, flag_values, F, T)
                          IN  r.kind = "Ok" => display(r.val) = v

\* C7 amended: when --F occurs once and a plain token v follows it, after a
\* successful parse the resolved value of F is v unchanged, get::<String>(F) is v,
\* and get::<T>(F) is what v parses to as T: the token 07 gives the u8 7, whose
\* canonical text is 7 and not 07, and a v that is no T gives
\* FailedToParseFlagValue.
C7_Amended ==
    ParsedOk =>
        \A i \in 1..Len(flags), p \in 1..Len(call.args) :
            GivenOnce(call.args, flags[i].name, p)
            => LET F == flags[i].name
                   v == call.args[p + 1]
               IN  /\ ValueOf(flag_values, F) = v
                   /\ get(flags, flag_values, F, "alloc::string::String")
                          = GetOk(StringVal(v))
                   /\ v = Tok07 =>
                          /\ get(flags, flag_values, F, "u8") = GetOk(U8Val(7))
                          /\ display(U8Val(7)) # v
                          /\ get(flags, flag_values, F, "bool")
                                 = ErrResult("FailedToParseFlagValue", F, "bool")

\* C7 witness: a flag registered as bool was given the token 07 once and holds
\* it after a successful parse.
C7_Witness ==
    /\ ParsedOk
    /\ \E i \in 1..Len(flags), p \in 1..Len(call.args) :
           /\ flags[i].type_id = "bool"
           /\ GivenOnce(call.args, flags[i].name, p)
           /\ ValueOf(flag_values, flags[i].name) = Tok07

\* The value a flag gets from the marker at position p: the token after it, or
\* "true" for a bool flag when that token is a marker or missing.
OwnValue(f, args, p) ==
    IF p + 1 <= Len(args) /\ (f.type_id # "bool" \/ ~IsMarkerToken(args[p + 1]))
    THEN args[p + 1]
    ELSE <<"t", "r", "u", "e">>

\* C8: after a successful parse, a bool flag B whose (last) marker is the final
\* token or is directly followed by a marker holds "true", and a registered flag
\* N whose (last) marker is that following token holds the value of its own
\* next token.
C8_BoolToggleBeforeMarker ==
    ParsedOk =>
        \A i \in 1..Len(flags) :
            (flags[i].type_id = "bool" /\ HasMarker(call.args, flags[i].name))
            => LET p == LastOccurrence(call.args, flags[i].name)
               IN  (p = Len(call.args) \/ IsMarkerToken(call.args[p + 1]))
                   => /\ ValueOf(flag_values, flags[i].name) = <<"t", "r", "u", "e">>
                      /\ \A n \in 1..Len(flags) :
                             (/\ p < Len(call.args)
                              /\ call.args[p + 1] = Marker(flags[n].name)
                              /\ LastOccurrence(call.args, flags[n].name) = p + 1)
                             => ValueOf(flag_values, flags[n].name)
                                    = OwnValue(flags[n], call.args, p + 1)

\* C8 witness: --b --a 07 with b a bool flag and a a u8 flag gives b = true and
\* a = 07.
C8_Witness ==
    /\ ParsedOk
    /\ call.args = <<TokB, TokA, Tok07>>
    /\ \E i, n \in 1..Len(flags) :
           /\ flags[i].name = NameB /\ flags[i].type_id = "bool"
           /\ flags[n].name = NameA /\ flags[n].type_id = "u8"
    /\ ValueOf(flag_values, NameB) = <<"t", "r", "u", "e">>
    /\ ValueOf(flag_values, NameA) = Tok07

\* s without an optional leading '+' and without its leading zeros.
RECURSIVE StripZeros(_)
StripZeros(s) == IF Len(s) > 1 /\ s[1] = "0" THEN StripZeros(Tail(s)) ELSE s

Unsigned(s) == IF Len(s) > 1 /\ s[1] = "+" THEN Tail(s) ELSE s

\* Whether s is the text of a T.
Parseable(T, s) ==
    CASE T = "bool" -> s \in {<<"t", "r", "u", "e">>, <<"f", "a", "l", "s", "e">>}
      [] T = "u8" -> \E n \in 0..(2 ^ 8 - 1) : StripZeros(Unsigned(s)) = u8_to_string(n)
      [] OTHER -> TRUE

\* C9: get::<T>(F) on a flag F with a resolved value s returns
\* FailedToParseFlagValue with the name F and the name of T exactly when s is not
\* the text of a T, and otherwise Ok, whatever type F was registered with; a get
\* without a value for F does not return FailedToParseFlagValue; get leaves
\* flag_values unchanged.
C9_TypeMismatchReporting ==
    [][call'.op = "get" =>
          /\ flag_values' = flag_values
          /\ IF HasValue(flag_values, call'.name)
             THEN IF Parseable(call'.T, ValueOf(flag_values, call'.name))
                  THEN result'.kind = "Ok"
                  ELSE result' = ErrResult("FailedToParseFlagValue", call'.name, call'.T)
             ELSE result'.kind # "FailedToParseFlagValue"]_vars

\* C9 witness: get::<u8> failed on a flag registered as u8 whose resolved value
\* is no number, and the error carries the flag's name and "u8".
C9_Witness ==
    /\ call.op = "get"
    /\ result.kind = "FailedToParseFlagValue"
    /\ result.name = call.name
    /\ result.type_name = "u8"
    /\ \E i \in 1..Len(flags) : flags[i].name = call.name /\ flags[i].type_id = "u8"
    /\ HasValue(flag_values, call.name)

\* C10 as stated: after a successful parse of arguments that contain --B for a
\* bool flag B, B holds "true" whatever follows the marker.
C10_Original ==
    ParsedOk =>
        \A i \in 1..Len(flags) :
            (flags[i].type_id = "bool" /\ HasMarker(call.args, flags[i].name))
            => ValueOf(flag_values, flags[i].name) = <<"t", "r", "u", "e">>

\* C10 amended: after a successful parse of arguments that contain --B for a bool
\* flag B, B holds the token after its (last) marker when there is one and it is
\* no marker (--B false gives "false"), and "true" when that token is a marker
\* or missing.
C10_Amended ==
    ParsedOk =>
        \A i \in 1..Len(flags) :
            (flags[i].type_id = "bool" /\ HasMarker(call.args, flags[i].name))
            => LET p == LastOccurrence(call.args, flags[i].name)
               IN  ValueOf(flag_values, flags[i].name) =
                       IF p < Len(call.args) /\ ~IsMarkerToken(call.args[p + 1])
                       THEN call.args[p + 1]
                       ELSE <<"t", "r", "u", "e">>

\* C10 witness: a bool flag named twice, the second marker followed by 07, holds
\* 07 after a successful parse.
C10_Witness ==
    /\ ParsedOk
    /\ \E i \in 1..Len(flags) :
           /\ flags[i].type_id = "bool"
           /\ Cardinality(Occurrences(call.args, flags[i].name)) = 2
           /\ LastOccurrence(call.args, flags[i].name) < Len(call.args)
           /\ ValueOf(flag_values, flags[i].name) = Tok07

\* The first flag in registration order that cannot resolve against args is
\* flags[j].
FirstFailing(fs, args, j) ==
    /\ Fails(fs[j], args)
    /\ \A k \in 1..(j - 1) : ~Fails(fs[k], args)

\* C11 as stated: for a flag F that is not a bool, the token after its last
\* marker is F's value whenever there is one, marker or not; when the last
\* marker is the final token the parse fails with RequiredArgWasNotGiven
\* naming F.
C11_Original ==
    Parsed =>
        \A i \in 1..Len(flags) :
            (flags[i].type_id # "bool" /\ HasMarker(call.args, flags[i].name))
            => LET F == flags[i].name
                   p == LastOccurrence(call.args, F)
               IN  IF p < Len(call.args)
                   THEN /\ given_flag_args(flags, call.args)[F] = Some(call.args[p + 1])
                        /\ ParsedOk => ValueOf(flag_values, F) = call.args[p + 1]
                   ELSE result = ErrResult("RequiredArgWasNotGiven", F, "")

\* C11 amended: for a flag F that is not a bool, the token after its last marker
\* is F's value whenever there is one, marker or not; when the last marker is
\* the final token F has no value, required or optional, and the parse fails
\* with RequiredArgWasNotGiven, naming F unless a flag registered before F
\* cannot resolve either, and then naming the first such flag.
C11_Amended ==
    Parsed =>
        \A i \in 1..Len(flags) :
            (flags[i].type_id # "bool" /\ HasMarker(call.args, flags[i].name))
            => LET F == flags[i].name
                   p == LastOccurrence(call.args, F)
               IN  IF p < Len(call.args)
                   THEN /\ given_flag_args(flags, call.args)[F] = Some(call.args[p + 1])
                        /\ ParsedOk => ValueOf(flag_values, F) = call.args[p + 1]
                   ELSE /\ given_flag_args(flags, call.args)[F] = None
                        /\ result.kind = "RequiredArgWasNotGiven"
                        /\ (\A k \in 1..(i - 1) : ~Fails(flags[k], call.args))
                               => result.name = F
                        /\ \E j \in 1..i :
                               /\ FirstFailing(flags, call.args, j)
                               /\ result.name = flags[j].name

\* C11 witness: --a --b with a and b both u8 flags, b optional: a takes the
\* marker --b as its value, b has none, and the error names b.
C11_Witness ==
    /\ Parsed
    /\ call.args = <<TokA, TokB>>
    /\ \E i, n \in 1..Len(flags) :
           /\ flags[i].name = NameA /\ flags[i].type_id = "u8"
           /\ flags[n].name = NameB /\ flags[n].type_id = "u8"
           /\ ~flags[n].is_required
    /\ given_flag_args(flags, call.args)[NameA] = Some(TokB)
    /\ result = ErrResult("RequiredArgWasNotGiven", NameB, "")

\* C12: when a parse finds flags that cannot resolve, the error it returns is
\* RequiredArgWasNotGiven with the name of the one registered first, wherever
\* the markers stand in the arguments; a parse in which every flag resolves
\* returns no RequiredArgWasNotGiven.
C12_FirstRegisteredFailureReported ==
    Parsed =>
        /\ \A j \in 1..Len(flags) :
               FirstFailing(flags, call.args, j)
               => result = ErrResult("RequiredArgWasNotGiven", flags[j].name, "")
        /\ (\A j \in 1..Len(flags) : ~Fails(flags[j], call.args))
               => result.kind # "RequiredArgWasNotGiven"

\* C12 witness: two failing flags, the second one's marker in the arguments and
\* the first one's not; the error names the first.
C12_Witness ==
    /\ Parsed
    /\ Len(flags) = 2
    /\ Fails(flags[1], call.args) /\ Fails(flags[2], call.args)
    /\ HasMarker(call.args, flags[2].name)
    /\ ~HasMarker(call.args, flags[1].name)
    /\ result = ErrResult("RequiredArgWasNotGiven", flags[1].name, "")

\* C13: when the marker of a registered flag F occurs more than once, the
\* tokenizer's map has one entry for F, the one of the last occurrence: after a
\* successful parse F holds what its last marker alone gives it, and when F is
\* no bool and its last marker is the final token the parse fails with
\* RequiredArgWasNotGiven although an earlier marker had a value.
C13_LastOccurrenceWins ==
    Parsed =>
        \A i \in 1..Len(flags) :
            Cardinality(Occurrences(call.args, flags[i].name)) >= 2
            => LET F == flags[i].name
                   p == LastOccurrence(call.args, F)
                   own == OwnValue(flags[i], call.args, p)
               IN  /\ F \in DOMAIN given_flag_args(flags, call.args)
                   /\ given_flag_args(flags, call.args)[F] =
                          IF p < Len(call.args)
                             /\ (flags[i].type_id # "bool"
                                 \/ ~IsMarkerToken(call.args[p + 1]))
                          THEN Some(call.args[p + 1])
                          ELSE None
                   /\ ParsedOk => ValueOf(flag_values, F) = own
                   /\ (flags[i].type_id # "bool" /\ p = Len(call.args))
                          => result.kind = "RequiredArgWasNotGiven"

\* C13 witness: --a 07 --a with a a u8 flag: the first marker had the value 07,
\* the last has none, and the parse fails naming a.
C13_Witness ==
    /\ Parsed
    /\ call.args = <<TokA, Tok07, TokA>>
    /\ \E i \in 1..Len(flags) : flags[i].name = NameA /\ flags[i].type_id = "u8"
    /\ result = ErrResult("RequiredArgWasNotGiven", NameA, "")

DefaultEntries(defaults, name) == {k \in 1..Len(defaults) : defaults[k].name = name}

\* C14: in every state each optional flag has exactly one default entry with its
\* name and each required flag has none, no default entry names anything but a
\* registered flag, and no call has panicked on the default lookup.
C14_DefaultsMatchOptionalFlags ==
    /\ \A i \in 1..Len(flags) :
           Cardinality(DefaultEntries(flag_defaults, flags[i].name)) =
               IF flags[i].is_required THEN 0 ELSE 1
    /\ \A k \in 1..Len(flag_defaults) : flag_defaults[k].name \in FlagNames(flags)
    /\ result.kind # "panic"
    /\ \A i \in 1..Len(flags) :
           ~flags[i].is_required
           => ~unwrap_default_flag_value(flag_defaults, flags[i].name).panic
    /\ ~generate_help_text_panics(flags, flag_defaults)

\* C14 witness: a parse that returned HelpFlagGiven, and so looked defaults up
\* for the absent flag and for the help text, on a Program with one required
\* and one optional flag, the optional one absent from the arguments.
C14_Witness ==
    /\ Parsed
    /\ result.kind = "HelpFlagGiven"
    /\ Len(flags) = 2
    /\ flags[1].is_required /\ ~flags[2].is_required
    /\ ~HasMarker(call.args, flags[2].name)
    /\ Len(flag_defaults) = 1

====
